---- MODULE Spec2Model ----
(***************************************************************************)
(* A model of yake (src/src/yake.rs, src/src/main.rs): the target tree of  *)
(* a Yakefile, its flattening into dot-qualified names, the dependency and *)
(* environment resolution, the merge of subordinate Yakefiles and the      *)
(* sequential execution of a target.                                       *)
(*                                                                         *)
(* Strings that are target names are modelled as the non-empty sequence of *)
(* their '.'-separated segments: "group.sub" is <<"group", "sub">>.  The   *)
(* segments themselves contain no '.', so format!("{}.{}", a, b) is a \o b,*)
(* name.split(".") is the sequence itself and parts[0..i+1].join(".") is   *)
(* SubSeq(name, 1, i+1).                                                   *)
(*                                                                         *)
(* Option<T> is a sequence of length at most one: None is <<>>, Some(x) is *)
(* <<x>>.  A HashMap is a function with a finite domain; the empty map is  *)
(* <<>>.  A Vec is a sequence.                                             *)
(***************************************************************************)
EXTENDS Integers, Sequences, FiniteSets, TLC

VARIABLES
    yake,       \* the root Yake (main.rs: `let mut yake`)
    sub_yakes,  \* subordinate Yakes still to be merged (main.rs: `sub_yakes`)
    pc,         \* where the caller is: "idle", "run", "done", "panic"
    ret,        \* the last call and what it returned: [fn, arg, val]
    target_name,   \* execute: the requested name
    run_list,      \* execute: `dependencies` followed by `target`
    ti,            \* execute: index in run_list of the target run_target is at
    ci,            \* execute: index of the next command of that target
    log,           \* history: the commands handed to bash so far
    loaded         \* history: the root and the subordinate Yakes as loaded

vars == <<yake, sub_yakes, pc, ret, target_name, run_list, ti, ci, log, loaded>>

(***************************************************************************)
(* Option and HashMap                                                      *)
(***************************************************************************)
None == <<>>

Some(x) == <<x>>

is_some(o) == Len(o) = 1

unwrap(o) == o[1]

unwrap_or_default(o) == IF is_some(o) THEN o[1] ELSE <<>>

\* HashMap::extend: the entries of n are inserted into m, overwriting.
extend(m, n) ==
    [k \in (DOMAIN m) \cup (DOMAIN n) |-> IF k \in DOMAIN n THEN n[k] ELSE m[k]]

\* HashMap::insert
insert(m, k, v) == extend(m, [x \in {k} |-> v])

\* HashMap::get
get(m, k) == IF k \in DOMAIN m THEN Some(m[k]) ELSE None

\* The orders in which a HashMap with key set S can be iterated.
RECURSIVE IterOrders(_)
IterOrders(S) ==
    IF S = {} THEN {<<>>}
    ELSE UNION {{<<k>> \o p : p \in IterOrders(S \ {k})} : k \in S}

\* One iteration order of a key set, used where the order cannot matter.
RECURSIVE KeySeq(_)
KeySeq(S) ==
    IF S = {} THEN <<>>
    ELSE LET k == CHOOSE x \in S : TRUE IN <<k>> \o KeySeq(S \ {k})

(***************************************************************************)
(* The data model                                                          *)
(***************************************************************************)
Group == "group"

Callable == "callable"

YakeTargetType == {Group, Callable}

YakeMeta(doc, version, include_recursively) ==
    [doc |-> doc, version |-> version, include_recursively |-> include_recursively]

YakeTargetMeta(doc, target_type, depends) ==
    [doc |-> doc, target_type |-> target_type, depends |-> depends]

YakeTarget(meta, targets, env, exec) ==
    [meta |-> meta, targets |-> targets, env |-> env, exec |-> exec]

\* A Yake.  `iter` is the order in which the HashMap `targets` is iterated:
\* it is a property of the map (its hasher and its layout), fixed as long as
\* the map is not modified.
Yake(meta, env, targets, iter) ==
    [meta |-> meta, env |-> env, targets |-> targets, iter |-> iter]

(***************************************************************************)
(* YakeTarget::get_sub_targets                                             *)
(***************************************************************************)
RECURSIVE get_sub_targets(_, _)
RECURSIVE get_sub_targets_loop(_, _, _, _)

\* The body of `for (target_name, target) in x`, over the keys left in `keys`.
\* The keys of a nested map have no '.', so the names the loop inserts are
\* distinct whatever the order of iteration.
get_sub_targets_loop(x, keys, prefix, targets) ==
    IF keys = <<>> THEN targets
    ELSE LET child_name == Head(keys)
             target == x[child_name]
             name == IF is_some(prefix) THEN unwrap(prefix) \o child_name
                     ELSE child_name
             p == IF is_some(prefix) THEN Some(unwrap(prefix) \o child_name)
                  ELSE None
             next == IF target.meta.target_type = Callable
                     THEN insert(targets, name, target)
                     ELSE extend(targets, get_sub_targets(target, p))
         IN get_sub_targets_loop(x, Tail(keys), prefix, next)

get_sub_targets(self, prefix) ==
    IF is_some(self.targets)
    THEN get_sub_targets_loop(unwrap(self.targets),
                              KeySeq(DOMAIN unwrap(self.targets)), prefix, <<>>)
    ELSE <<>>

(***************************************************************************)
(* impl Yake                                                               *)
(***************************************************************************)
RECURSIVE get_all_targets_loop(_, _, _)
get_all_targets_loop(self_targets, keys, targets) ==
    IF keys = <<>> THEN targets
    ELSE LET name == Head(keys)
             target == self_targets[name]
             t1 == insert(targets, name, target)
             t2 == IF is_some(target.targets)
                   THEN extend(t1, get_sub_targets(target, Some(name)))
                   ELSE t1
         IN get_all_targets_loop(self_targets, Tail(keys), t2)

\* Mutant: the sub-targets are forgotten.
get_all_targets_top_level(self) == self.targets

get_all_targets(self) == get_all_targets_loop(self.targets, self.iter, <<>>)

\* Mutant: the filter on the target type is missing.
get_target_names_unfiltered(self) == DOMAIN get_all_targets(self)

\* The Vec is built by iterating a fresh HashMap: its order is arbitrary, and
\* the model keeps the set of its elements.
get_target_names(self) ==
    {name \in DOMAIN get_all_targets(self) :
        get_all_targets(self)[name].meta.target_type = Callable}

get_target_by_name(self, name) == get(get_all_targets(self), name)

Ok(v) == [tag |-> "Ok", val |-> v]

Err(v) == [tag |-> "Err", val |-> v]

Panic(v) == [tag |-> "Panic", val |-> v]

has_target_name(self, name) ==
    IF is_some(get_target_by_name(self, name))
    THEN Ok(<<>>)
    ELSE Err(get_target_names(self))


\* The iteration orders of `targets` that give different flattened maps, one
\* order for each: the order of self.targets is read by get_all_targets only.
IterChoices(targets) ==
    LET orders == IterOrders(DOMAIN targets)
        flat(p) == get_all_targets_loop(targets, p, <<>>)
    IN {CHOOSE p \in orders : flat(p) = f : f \in {flat(q) : q \in orders}}

\* The first entry of `depends` that does not resolve, 0 when all resolve.
RECURSIVE first_unknown(_, _, _)
first_unknown(self, depends, i) ==
    IF i > Len(depends) THEN 0
    ELSE IF is_some(get_target_by_name(self, depends[i])) THEN
        first_unknown(self, depends, i + 1)
    ELSE i

\* Mutant: the dependencies of a dependency are pushed after it.
dependencies_of_transitive(self, target) ==
    LET depends == unwrap_or_default(target.meta.depends)
        direct(i) == unwrap(get_target_by_name(self, depends[i]))
        below(t) == LET d == SelectSeq(unwrap_or_default(t.meta.depends),
                                       LAMBDA n : is_some(get_target_by_name(self, n)))
                    IN [j \in 1..Len(d) |-> unwrap(get_target_by_name(self, d[j]))]
        RECURSIVE from(_)
        from(i) == IF i > Len(depends) THEN <<>>
                   ELSE <<direct(i)>> \o below(direct(i)) \o from(i + 1)
    IN from(1)

\* The Vec pushed for one callable target, all of its depends resolving.
dependencies_of(self, target) ==
    LET depends == unwrap_or_default(target.meta.depends)
    IN [i \in 1..Len(depends) |-> unwrap(get_target_by_name(self, depends[i]))]

\* Mutant: an unknown dependency is skipped.
get_all_dependencies_skipping(self) ==
    LET all == get_all_targets(self)
        callables == {n \in DOMAIN all : all[n].meta.target_type = Callable}
        known(depends) == SelectSeq(depends, LAMBDA d : d \in DOMAIN all)
    IN {Ok([n \in callables |->
               [i \in 1..Len(known(unwrap_or_default(all[n].meta.depends))) |->
                   all[known(unwrap_or_default(all[n].meta.depends))[i]]]])}

\* The outcomes of get_all_dependencies.  The loop visits every callable
\* target of the flattened map, in the arbitrary order of a fresh HashMap, and
\* panics at the first unknown dependency it meets: with several targets
\* declaring one, any of them can be the one reported.
get_all_dependencies(self) ==
    LET all == get_all_targets(self)
        callables == {n \in DOMAIN all : all[n].meta.target_type = Callable}
        bad == {n \in callables :
                   first_unknown(self, unwrap_or_default(all[n].meta.depends), 1) # 0}
    IN IF bad # {}
       THEN {Panic(<<"Unknown dependency",
                     unwrap_or_default(all[n].meta.depends)[
                         first_unknown(self, unwrap_or_default(all[n].meta.depends), 1)],
                     n>>) : n \in bad}
       ELSE {Ok([n \in callables |-> dependencies_of(self, all[n])])}

get_dependencies_by_name(self, name) ==
    {IF r.tag = "Panic" THEN r
     ELSE IF is_some(get(r.val, name)) THEN Ok(unwrap(get(r.val, name)))
     ELSE Panic(<<"unwrap on None", name>>) : r \in get_all_dependencies(self)}

\* Mutant: a key the root already has is not overwritten.
add_sub_yake_keeping(self, sub) ==
    LET targets == extend(get_all_targets(sub), self.targets)
    IN {Yake(self.meta, self.env, targets, p) : p \in IterChoices(targets)}

\* The Yakes add_sub_yake can leave in self: the inserts may rearrange the
\* map, so it is iterated in any order afterwards.
add_sub_yake(self, sub) ==
    LET targets == extend(self.targets, get_all_targets(sub))
    IN {Yake(self.meta, self.env, targets, p) : p \in IterChoices(targets)}

\* Mutant: the blacklist misses HOME.
blacklist_without_home == {"TERM", "TZ", "LANG", "PATH"}

blacklist == {"TERM", "TZ", "LANG", "PATH", "HOME"}

\* Mutant: a key already set by a shallower layer is kept.
RECURSIVE parent_envs_shallow_wins(_, _, _, _)
parent_envs_shallow_wins(self, parent_targets, i, envs) ==
    IF i > Len(parent_targets) THEN Ok(envs)
    ELSE LET parent_target_name == SubSeq(parent_targets, 1, i)
             p == get_target_by_name(self, parent_target_name)
         IN IF is_some(p)
            THEN parent_envs_shallow_wins(self, parent_targets, i + 1,
                                          extend(unwrap_or_default(unwrap(p).env), envs))
            ELSE Panic(<<"Unknown Target", parent_target_name>>)

\* The loop over parent_targets, from index i on.
RECURSIVE parent_envs(_, _, _, _)
parent_envs(self, parent_targets, i, envs) ==
    IF i > Len(parent_targets) THEN Ok(envs)
    ELSE LET parent_target_name == SubSeq(parent_targets, 1, i)
             p == get_target_by_name(self, parent_target_name)
         IN IF is_some(p)
            THEN parent_envs(self, parent_targets, i + 1,
                             extend(envs, unwrap_or_default(unwrap(p).env)))
            ELSE Panic(<<"Unknown Target", parent_target_name>>)

get_target_env_vars(self, name) ==
    IF has_target_name(self, name).tag = "Err"
    THEN Err(<<"Unknown target", name>>)
    ELSE LET r == parent_envs(self, name, 1, unwrap_or_default(self.env))
         IN IF r.tag = "Panic" THEN r
            ELSE LET target == unwrap(get_target_by_name(self, name))
                     envs == extend(r.val, unwrap_or_default(target.env))
                     invalid == {k \in DOMAIN envs : k \in blacklist}
                     valid == {k \in DOMAIN envs : k \notin blacklist}
                 IN IF Cardinality(invalid) > 0
                    THEN Panic(<<"Found invalid/forbidden env variables", invalid>>)
                    ELSE Ok([k \in valid |-> envs[k]])

(***************************************************************************)
(* The Yakefiles the model loads                                           *)
(***************************************************************************)
MaxDepth == 3      \* nesting depth of the generated target trees

MaxDeps == 2       \* length of a generated depends list

MaxCmds == 2       \* length of a generated exec list

MaxSubYakes == 2   \* number of subordinate Yakefiles merged into the root

\* A Yake as load_yml_from_file returns it.
Loaded(meta, env, targets) ==
    {Yake(meta, env, targets, p) : p \in IterChoices(targets)}

RootMeta == YakeMeta("root", "1.0.0", Some(TRUE))

SubMeta(doc) == YakeMeta(doc, "1.0.0", None)

\* A command line: "echo <who> <i>".
Commands(who, n) == [i \in 1..n |-> <<"echo", who, i>>]

Map1(k, v) == [x \in {k} |-> v]

Map2(k1, v1, k2, v2) == [x \in {k1, k2} |-> IF x = k1 THEN v1 ELSE v2]

Map3(k1, v1, k2, v2, k3, v3) ==
    [x \in {k1, k2, k3} |-> IF x = k1 THEN v1 ELSE IF x = k2 THEN v2 ELSE v3]

Seqs(S, n) == UNION {[1..m -> S] : m \in 0..n}

\* Family A: trees of every shape, a chain of children named "s", each node a
\* Group or a Callable; a Callable carries one command.
Plain(doc, ty, targets) ==
    YakeTarget(YakeTargetMeta(doc, ty, None), targets, None,
               IF ty = Callable THEN Some(Commands(doc, 1)) ELSE None)

RECURSIVE ShapeTargets(_, _)
ShapeTargets(d, doc) ==
    IF d = 0 THEN {}
    ELSE {Plain(doc, ty, None) : ty \in YakeTargetType}
         \cup {Plain(doc, ty, Some(Map1(<<"s">>, c))) :
                  ty \in YakeTargetType, c \in ShapeTargets(d - 1, doc)}

ShapeYakes ==
    UNION {Loaded(RootMeta, None, Map1(<<"g">>, g))
           \cup UNION {Loaded(RootMeta, None, Map2(<<"g">>, g, <<"t">>, t)) :
                          t \in ShapeTargets(1, "t")} :
              g \in ShapeTargets(MaxDepth, "g")}

\* Family B: the environments of the root, of a top-level target g and of its
\* child g.s, each absent or one of a few maps, two of them with a reserved key.
EnvOpts ==
    {None,
     Some(Map1("BASE", "1")),
     Some(Map2("BASE", "2", "PORT", "2")),
     Some(Map1("PATH", "p")),
     Some(Map2("PORT", "3", "HOME", "h"))}

EnvYakes ==
    UNION {Loaded(RootMeta, e0,
                  Map1(<<"g">>,
                       YakeTarget(YakeTargetMeta("g", ty, None),
                                  Some(Map1(<<"s">>,
                                            YakeTarget(YakeTargetMeta("s", Callable, None),
                                                       None, e2, Some(Commands("s", 1))))),
                                  e1, None))) :
              e0 \in EnvOpts, e1 \in EnvOpts, e2 \in EnvOpts, ty \in YakeTargetType}

\* Family C: a target t depending on any list of d, e and the unknown x; d a
\* Group or a Callable, itself depending on nothing, on e or on x.
ExecOpts(who) == {None} \cup {Some(Commands(who, n)) : n \in 0..MaxCmds}

ExecYakes ==
    UNION {Loaded(RootMeta, Some(Map1("BASE", "1")),
                  Map3(<<"t">>,
                       YakeTarget(YakeTargetMeta("t", Callable, t_depends), None,
                                  Some(Map1("PORT", "1")), t_exec),
                       <<"d">>,
                       YakeTarget(YakeTargetMeta("d", d_type, d_depends), None,
                                  Some(Map1("BASE", "2")), d_exec),
                       <<"e">>,
                       YakeTarget(YakeTargetMeta("e", Callable, None), None,
                                  None, Some(Commands("e", 1))))) :
              t_depends \in {None} \cup {Some(q) : q \in Seqs({<<"d">>, <<"e">>, <<"x">>}, MaxDeps)},
              t_exec \in {None, Some(Commands("t", MaxCmds))},
              d_type \in YakeTargetType,
              d_depends \in {None, Some(<<<<"e">>>>), Some(<<<<"x">>>>)},
              d_exec \in ExecOpts("d")}

\* Family D: a root and the subordinate Yakefiles merged into it.
MergeRoot ==
    Loaded(RootMeta, Some(Map1("BASE", "1")),
           Map2(<<"base">>,
                YakeTarget(YakeTargetMeta("root base", Callable, None), None, None,
                           Some(Commands("base", 1))),
                <<"g">>,
                YakeTarget(YakeTargetMeta("root g", Group, None),
                           Some(Map1(<<"s">>,
                                     YakeTarget(YakeTargetMeta("root s", Callable,
                                                               Some(<<<<"base">>>>)),
                                                None, Some(Map1("PORT", "1")),
                                                Some(Commands("s", 1))))),
                           Some(Map1("BASE", "2")), None)))

\* The subordinate Yakefile of test_add_sub_yakes, and Yakefiles defining g.
PickedSubYakes ==
    Loaded(SubMeta("sub"), Some(Map1("PATH", "p")),
           Map2(<<"base">>,
                YakeTarget(YakeTargetMeta("sub base", Callable, None), None, None,
                           Some(Commands("sub base", 1))),
                <<"sub_base">>,
                YakeTarget(YakeTargetMeta("sub sub_base", Callable, None), None, None,
                           Some(Commands("sub_base", 1)))))
    \cup Loaded(SubMeta("sub"), None,
                Map1(<<"g">>, Plain("x", Group,
                         Some(Map1(<<"s">>, Plain("x", Group,
                             Some(Map1(<<"s">>, Plain("x", Callable, None)))))))))
    \cup Loaded(SubMeta("sub"), None,
                Map1(<<"g">>, Plain("y", Group,
                         Some(Map1(<<"s">>, Plain("y", Callable,
                             Some(Map1(<<"s">>, Plain("y", Callable, None)))))))))
    \cup Loaded(SubMeta("sub"), None, Map1(<<"g">>, Plain("z", Callable, None)))

ShapeSubYakes ==
    UNION {Loaded(SubMeta("sub"), None, Map1(<<"g">>, g)) :
              g \in ShapeTargets(MaxDepth, "sub g")}

Inputs ==
    {<<y, <<>>>> : y \in ShapeYakes \cup EnvYakes \cup ExecYakes}
    \cup {<<y, s>> : y \in MergeRoot,
                     s \in Seqs(PickedSubYakes, MaxSubYakes)
                           \cup {<<u>> : u \in ShapeSubYakes}}

\* The names a caller asks for: the keys of the flattened map, their
\* prefixes, the bare last segment of a nested name and an unknown name.
RECURSIVE Prefixes(_)
Prefixes(name) ==
    IF Len(name) <= 1 THEN {name}
    ELSE {name} \cup Prefixes(SubSeq(name, 1, Len(name) - 1))

QueryNames(self) ==
    UNION {Prefixes(n) : n \in DOMAIN get_all_targets(self)}
    \cup {<<"s">>, <<"x">>}

(***************************************************************************)
(* The caller: main.rs and the tests                                       *)
(***************************************************************************)
Running == [tag |-> "Running", val |-> <<>>]

NoCall == [fn |-> "none", arg |-> <<>>, val |-> <<>>]

Call(fn, arg, val) == [fn |-> fn, arg |-> arg, val |-> val]

Init ==
    /\ \E in \in Inputs : yake = in[1] /\ sub_yakes = in[2] /\ loaded = in
    /\ pc = "idle"
    /\ ret = NoCall
    /\ target_name = <<>>
    /\ run_list = <<>>
    /\ ti = 0
    /\ ci = 0
    /\ log = <<>>

exec_vars == <<target_name, run_list, ti, ci, log>>

fixed == <<yake, sub_yakes, loaded>>

\* main.rs: sub_yakes.iter().for_each(|sub_yake| yake.add_sub_yake(...)).
\* ret keeps the root as it was before the merge.
AddSubYake ==
    /\ pc = "idle"
    /\ sub_yakes # <<>>
    /\ yake' \in add_sub_yake(yake, Head(sub_yakes))
    /\ sub_yakes' = Tail(sub_yakes)
    /\ ret' = Call("add_sub_yake", Head(sub_yakes), yake)
    /\ UNCHANGED <<pc, exec_vars, loaded>>

GetAllTargets ==
    /\ pc = "idle"
    /\ sub_yakes = <<>>
    /\ ret' = Call("get_all_targets", <<>>, get_all_targets(yake))
    /\ UNCHANGED <<fixed, pc, exec_vars>>

HasTargetName ==
    /\ pc = "idle"
    /\ sub_yakes = <<>>
    /\ \E name \in QueryNames(yake) :
           ret' = Call("has_target_name", name, has_target_name(yake, name))
    /\ UNCHANGED <<fixed, pc, exec_vars>>

GetDependenciesByName ==
    /\ pc = "idle"
    /\ sub_yakes = <<>>
    /\ \E name \in get_target_names(yake) :
       \E r \in get_dependencies_by_name(yake, name) :
           ret' = Call("get_dependencies_by_name", name, r)
    /\ UNCHANGED <<fixed, pc, exec_vars>>

GetTargetEnvVars ==
    /\ pc = "idle"
    /\ sub_yakes = <<>>
    /\ \E name \in QueryNames(yake) :
           ret' = Call("get_target_env_vars", name, get_target_env_vars(yake, name))
    /\ UNCHANGED <<fixed, pc, exec_vars>>

\* Mutant: the target is run before its dependencies.
run_order_target_first(dependencies, target) == <<target>> \o dependencies

\* Mutant: the env of the target being run is laid over the environment.
run_target_envs_own(self, name, target) ==
    IF get_target_env_vars(self, name).tag = "Ok"
    THEN Ok(extend(get_target_env_vars(self, name).val, unwrap_or_default(target.env)))
    ELSE get_target_env_vars(self, name)

\* What execute runs, in order: `for dep in dependencies { run_target(&dep) }`
\* and then run_target(&target).
run_order(dependencies, target) == dependencies \o <<target>>

\* The environment run_target(target) hands to a command: that of the name
\* execute was called with; `target` is in scope and not read.
run_target_envs(self, name, target) == get_target_env_vars(self, name)

\* execute, up to the closure run_target (yake.rs 232-237).
Execute ==
    /\ pc = "idle"
    /\ sub_yakes = <<>>
    /\ \E name \in QueryNames(yake) :
          IF has_target_name(yake, name).tag = "Err"
          THEN /\ pc' = "done"
               /\ ret' = Call("execute", name, Err(<<"Unknown target", name>>))
               /\ UNCHANGED exec_vars
          ELSE \E dependencies \in get_dependencies_by_name(yake, name) :
                  IF dependencies.tag = "Panic"
                  THEN /\ pc' = "panic"
                       /\ ret' = Call("execute", name, dependencies)
                       /\ UNCHANGED exec_vars
                  ELSE /\ pc' = "run"
                       /\ ret' = Call("execute", name, Running)
                       /\ target_name' = name
                       /\ run_list' = run_order(dependencies.val,
                                                unwrap(get_target_by_name(yake, name)))
                       /\ ti' = 1
                       /\ ci' = 1
                       /\ UNCHANGED log
    /\ UNCHANGED fixed

\* run_target on a target without exec: `None => ()`.
RunTargetNone ==
    /\ pc = "run"
    /\ ti <= Len(run_list)
    /\ ~is_some(run_list[ti].exec)
    /\ ti' = ti + 1
    /\ UNCHANGED <<fixed, pc, ret, target_name, run_list, ci, log>>

\* What Command::output and the decoding of its output can do.
Outcomes == {"ok", "spawn failed", "not utf8"}

\* One turn of `for command in commands`: the environment is resolved for the
\* requested name, bash runs the command, its output is decoded.
RunCommand ==
    /\ pc = "run"
    /\ ti <= Len(run_list)
    /\ is_some(run_list[ti].exec)
    /\ ci <= Len(unwrap(run_list[ti].exec))
    /\ LET command == unwrap(run_list[ti].exec)[ci]
           envs == run_target_envs(yake, target_name, run_list[ti])
           entry == [command |-> command,
                     envs |-> IF envs.tag = "Ok" THEN envs.val ELSE <<>>,
                     target |-> run_list[ti],
                     ti |-> ti]
       IN IF envs.tag = "Panic"
          THEN /\ pc' = "panic"
               /\ ret' = Call("execute", target_name, envs)
               /\ UNCHANGED <<ci, log>>
          ELSE \E outcome \in Outcomes :
                  CASE outcome = "ok" ->
                          /\ log' = Append(log, entry)
                          /\ ci' = ci + 1
                          /\ UNCHANGED <<pc, ret>>
                    [] outcome = "spawn failed" ->
                          /\ pc' = "panic"
                          /\ ret' = Call("execute", target_name,
                                         Panic(<<"failed to execute command", command>>))
                          /\ UNCHANGED <<ci, log>>
                    [] outcome = "not utf8" ->
                          /\ log' = Append(log, entry)
                          /\ pc' = "panic"
                          /\ ret' = Call("execute", target_name,
                                         Panic(<<"Utf8Error", command>>))
                          /\ UNCHANGED ci
    /\ UNCHANGED <<fixed, target_name, run_list, ti>>

\* The end of run_target on a target with exec: "Done" is written.
RunTargetDone ==
    /\ pc = "run"
    /\ ti <= Len(run_list)
    /\ is_some(run_list[ti].exec)
    /\ ci > Len(unwrap(run_list[ti].exec))
    /\ ti' = ti + 1
    /\ ci' = 1
    /\ UNCHANGED <<fixed, pc, ret, target_name, run_list, log>>

\* Ok("All cool")
ExecuteReturn ==
    /\ pc = "run"
    /\ ti > Len(run_list)
    /\ pc' = "done"
    /\ ret' = Call("execute", target_name, Ok("All cool"))
    /\ UNCHANGED <<fixed, exec_vars>>

Next ==
    \/ AddSubYake
    \/ GetAllTargets
    \/ HasTargetName
    \/ GetDependenciesByName
    \/ GetTargetEnvVars
    \/ Execute
    \/ RunTargetNone
    \/ RunCommand
    \/ RunTargetDone
    \/ ExecuteReturn

Spec == Init /\ [][Next]_vars

(***************************************************************************)
(* The target tree, node by node                                           *)
(***************************************************************************)
\* A chain is a path of the target tree from a top-level target down to a
\* node: the keys walked and the nodes met.
RECURSIVE ChainsFrom(_, _)
ChainsFrom(keys, nodes) ==
    LET last == nodes[Len(nodes)]
    IN {[keys |-> keys, nodes |-> nodes]}
       \cup IF is_some(last.targets)
            THEN UNION {ChainsFrom(Append(keys, k), Append(nodes, unwrap(last.targets)[k])) :
                           k \in DOMAIN unwrap(last.targets)}
            ELSE {}

Chains(self) ==
    UNION {ChainsFrom(<<k>>, <<self.targets[k]>>) : k \in DOMAIN self.targets}

NodeOf(c) == c.nodes[Len(c.nodes)]

\* The keys of a chain joined with '.'.
RECURSIVE Join(_)
Join(keys) == IF keys = <<>> THEN <<>> ELSE Head(keys) \o Join(Tail(keys))

QualifiedName(c) == Join(c.keys)

IsTopLevel(c) == Len(c.keys) = 1

\* A nested node all of whose ancestors below the top-level one are Groups.
BelowGroupsOnly(c) ==
    \A i \in 2..(Len(c.nodes) - 1) : c.nodes[i].meta.target_type = Group

IsCallable(t) == t.meta.target_type = Callable

\* The chains get_all_targets is meant to list.
Listed(self) ==
    {c \in Chains(self) : IsTopLevel(c) \/ (IsCallable(NodeOf(c)) /\ BelowGroupsOnly(c))}

(***************************************************************************)
(* C1                                                                      *)
(***************************************************************************)
\* C1, as stated: the flattened map holds every Callable node of the tree, at
\* any depth, under its dot-joined name, and no Group but the top-level ones.
C1_AsStated ==
    ret.fn = "get_all_targets" =>
        /\ \A c \in Chains(yake) :
               IsCallable(NodeOf(c)) =>
                   /\ QualifiedName(c) \in DOMAIN ret.val
                   /\ ret.val[QualifiedName(c)] = NodeOf(c)
        /\ \A k \in DOMAIN ret.val :
               ~IsCallable(ret.val[k]) =>
                   k \in DOMAIN yake.targets /\ yake.targets[k] = ret.val[k]

\* C1, amended: the flattened map holds every top-level target and every
\* Callable node whose ancestors below the top-level one are all Groups,
\* under its dot-joined name, and maps the name to that node or, when several
\* such nodes have the same dot-joined name, to one of them; it holds nothing
\* else, so no Group but the top-level ones and no node below a nested Callable.
C1_Flattened ==
    ret.fn = "get_all_targets" =>
        /\ \A c \in Listed(yake) : QualifiedName(c) \in DOMAIN ret.val
        /\ \A k \in DOMAIN ret.val :
               \E c \in Listed(yake) : QualifiedName(c) = k /\ ret.val[k] = NodeOf(c)
        /\ \A k \in DOMAIN ret.val :
               ~IsCallable(ret.val[k]) =>
                   k \in DOMAIN yake.targets /\ yake.targets[k] = ret.val[k]

\* A Callable three levels deep below two Groups is listed, next to a
\* top-level Group.
C1_Witness ==
    /\ ret.fn = "get_all_targets"
    /\ \E c \in Listed(yake) :
           /\ Len(c.keys) = 3
           /\ ~IsCallable(c.nodes[1])
           /\ ret.val[QualifiedName(c)] = NodeOf(c)
           /\ ret.val[c.keys[1]] = c.nodes[1]

(***************************************************************************)
(* C2, C3: the resolved environment                                        *)
(***************************************************************************)
\* The layers of the environment of a name: the root env, then the env of
\* the target found under each prefix of the name, the shortest first; the
\* last layer is the env of the target itself.
Layers(self, name) ==
    <<unwrap_or_default(self.env)>>
    \o [i \in 1..Len(name) |->
           IF SubSeq(name, 1, i) \in DOMAIN get_all_targets(self)
           THEN unwrap_or_default(get_all_targets(self)[SubSeq(name, 1, i)].env)
           ELSE <<>>]

LayerKeys(self, name) ==
    UNION {DOMAIN Layers(self, name)[i] : i \in 1..(Len(name) + 1)}

\* The deepest layer that defines key k.
Deepest(self, name, k) ==
    CHOOSE i \in 1..(Len(name) + 1) :
        /\ k \in DOMAIN Layers(self, name)[i]
        /\ \A j \in (i + 1)..(Len(name) + 1) : k \notin DOMAIN Layers(self, name)[j]

MergedEnv(self, name) ==
    [k \in LayerKeys(self, name) |-> Layers(self, name)[Deepest(self, name, k)][k]]

\* C2: a mapping returned by get_target_env_vars(name) is the layered merge
\* root env < env of each prefix of name, shortest first < the target's own
\* env: it has every key some layer defines, with the value of the deepest
\* layer defining it.
C2_LayeredMerge ==
    (ret.fn = "get_target_env_vars" /\ ret.val.tag = "Ok") =>
        /\ \A i \in 1..Len(ret.arg) :
               SubSeq(ret.arg, 1, i) \in DOMAIN get_all_targets(yake)
        /\ DOMAIN ret.val.val = LayerKeys(yake, ret.arg)
        /\ \A k \in DOMAIN ret.val.val :
               ret.val.val[k] = Layers(yake, ret.arg)[Deepest(yake, ret.arg, k)][k]

\* A nested target whose environment keeps one key of the root env and has
\* another key of the root env overridden by a deeper layer.
C2_Witness ==
    /\ ret.fn = "get_target_env_vars"
    /\ ret.val.tag = "Ok"
    /\ Len(ret.arg) = 2
    /\ \E k1, k2 \in DOMAIN unwrap_or_default(yake.env) :
           /\ ret.val.val[k1] # unwrap_or_default(yake.env)[k1]
           /\ ret.val.val[k2] = unwrap_or_default(yake.env)[k2]
           /\ Deepest(yake, ret.arg, k2) = 1

Reserved == {"TERM", "TZ", "LANG", "PATH", "HOME"}

\* C3: for an existing name, a reserved key in any layer of the environment
\* makes get_target_env_vars fail, and a mapping it returns has no reserved
\* key.
C3_ReservedRejected ==
    (ret.fn = "get_target_env_vars" /\ ret.arg \in DOMAIN get_all_targets(yake)) =>
        /\ (LayerKeys(yake, ret.arg) \cap Reserved # {}) => ret.val.tag = "Panic"
        /\ ret.val.tag = "Ok" => (DOMAIN ret.val.val) \cap Reserved = {}

\* The call fails on a reserved key that only the env of an ancestor defines.
C3_Witness ==
    /\ ret.fn = "get_target_env_vars"
    /\ ret.val.tag = "Panic"
    /\ Len(ret.arg) = 2
    /\ ret.val.val[1] = "Found invalid/forbidden env variables"
    /\ DOMAIN Layers(yake, ret.arg)[1] \cap Reserved = {}
    /\ DOMAIN Layers(yake, ret.arg)[2] \cap Reserved # {}
    /\ DOMAIN Layers(yake, ret.arg)[3] \cap Reserved = {}

(***************************************************************************)
(* C4, C5: the order and the environment of the commands execute runs      *)
(***************************************************************************)
DependsOf(self, name) ==
    unwrap_or_default(get_all_targets(self)[name].meta.depends)

DependsResolve(self, name) ==
    \A i \in 1..Len(DependsOf(self, name)) :
        DependsOf(self, name)[i] \in DOMAIN get_all_targets(self)

\* The commands of a target, each with the position i of the target in the
\* run.
Tagged(target, i) ==
    [j \in 1..Len(unwrap_or_default(target.exec)) |->
        <<i, unwrap_or_default(target.exec)[j]>>]

RECURSIVE ExpectedFrom(_, _, _)
ExpectedFrom(self, name, i) ==
    IF i > Len(DependsOf(self, name))
    THEN Tagged(get_all_targets(self)[name], i)
    ELSE Tagged(get_all_targets(self)[DependsOf(self, name)[i]], i)
         \o ExpectedFrom(self, name, i + 1)

\* The commands execute(name) is to run: those of each dependency in the
\* order of the depends list, then those of the target.
Expected(self, name) == ExpectedFrom(self, name, 1)

Ran == [j \in 1..Len(log) |-> <<log[j].ti, log[j].command>>]

IsPrefix(a, b) == Len(a) <= Len(b) /\ SubSeq(b, 1, Len(a)) = a

\* C4: the commands execute(name) has run so far are, in order, the first of
\* the commands of its dependencies in depends order followed by its own
\* commands; when execute returns, all of them have run; a dependency
\* without exec contributes none.
C4_RunOrder ==
    ret.fn = "execute" =>
        /\ log # <<>> =>
               /\ DependsResolve(yake, ret.arg)
               /\ IsPrefix(Ran, Expected(yake, ret.arg))
        /\ (pc = "done" /\ ret.val.tag = "Ok") => Ran = Expected(yake, ret.arg)

\* execute returned after a first dependency without exec, a second
\* dependency with commands and the commands of the target.
C4_Witness ==
    /\ ret.fn = "execute"
    /\ pc = "done"
    /\ ret.val.tag = "Ok"
    /\ Len(run_list) = 3
    /\ ~is_some(run_list[1].exec)
    /\ Len(log) >= 3
    /\ log[1].ti = 2
    /\ log[Len(log) - 1].ti = 3
    /\ log[Len(log)].ti = 3
    /\ log[Len(log) - 1].command # log[Len(log)].command

\* C5: every command execute(name) runs, of a dependency or of the target,
\* is given the resolved environment of name.
C5_RequestersEnv ==
    ret.fn = "execute" =>
        \A j \in 1..Len(log) : log[j].envs = MergedEnv(yake, ret.arg)

\* A command of a dependency ran with a value of the requested target's
\* environment for a key that the dependency's own env sets differently.
C5_Witness ==
    /\ ret.fn = "execute"
    /\ \E j \in 1..Len(log) :
           /\ log[j].ti < Len(run_list)
           /\ \E k \in DOMAIN unwrap_or_default(log[j].target.env) :
                  /\ k \in DOMAIN log[j].envs
                  /\ log[j].envs[k] # unwrap_or_default(log[j].target.env)[k]

(***************************************************************************)
(* C6, C7: the dependencies                                                *)
(***************************************************************************)
CallableNames(self) ==
    {n \in DOMAIN get_all_targets(self) : IsCallable(get_all_targets(self)[n])}

\* The targets the depends list of `name` names, in its order.
Named(self, name) ==
    [i \in 1..Len(DependsOf(self, name)) |->
        get_all_targets(self)[DependsOf(self, name)[i]]]

\* The callable targets with a depends entry that does not resolve.
Unresolved(self) == {n \in CallableNames(self) : ~DependsResolve(self, n)}

\* C6, as stated: for a Callable name whose own depends entries all resolve,
\* get_dependencies_by_name(name) is the sequence of the targets its depends
\* list names.
C6_AsStated ==
    (ret.fn = "get_dependencies_by_name" /\ DependsResolve(yake, ret.arg)) =>
        /\ ret.val.tag = "Ok"
        /\ ret.val.val = Named(yake, ret.arg)

\* C6, amended: when the depends entries of every Callable target of the
\* flattened map resolve, get_dependencies_by_name(name) is the sequence of
\* the targets the depends list of name names, in its order and of its
\* length, and execute(name) runs commands of these targets and of name only;
\* when some Callable target has a depends entry that does not resolve,
\* get_dependencies_by_name fails for every name.
C6_DirectOnly ==
    /\ ret.fn = "get_dependencies_by_name" =>
           IF Unresolved(yake) = {}
           THEN /\ ret.val.tag = "Ok"
                /\ Len(ret.val.val) = Len(DependsOf(yake, ret.arg))
                /\ ret.val.val = Named(yake, ret.arg)
           ELSE ret.val.tag = "Panic"
    /\ ret.fn = "execute" =>
           \A j \in 1..Len(log) :
               /\ log[j].ti <= Len(DependsOf(yake, ret.arg)) + 1
               /\ log[j].target =
                      IF log[j].ti <= Len(DependsOf(yake, ret.arg))
                      THEN Named(yake, ret.arg)[log[j].ti]
                      ELSE get_all_targets(yake)[ret.arg]

\* The dependencies of a target, one of them depending itself on a target
\* that the first does not name.
C6_Witness ==
    /\ ret.fn = "get_dependencies_by_name"
    /\ ret.val.tag = "Ok"
    /\ Len(ret.val.val) >= 1
    /\ \E i \in 1..Len(ret.val.val) :
           \E j \in 1..Len(unwrap_or_default(ret.val.val[i].meta.depends)) :
               \A k \in 1..Len(DependsOf(yake, ret.arg)) :
                   DependsOf(yake, ret.arg)[k]
                       # unwrap_or_default(ret.val.val[i].meta.depends)[j]

\* C7: when a Callable target of the flattened map has a depends entry that
\* is no key of the flattened map, execute of an existing name panics with a
\* message naming an unresolved entry and the target declaring it (the
\* requested target when it is the only one with such an entry), and has run
\* no command.
C7_UnknownDependencyFatal ==
    (/\ ret.fn = "execute"
     /\ ret.arg \in DOMAIN get_all_targets(yake)
     /\ Unresolved(yake) # {}) =>
        /\ pc = "panic"
        /\ log = <<>>
        /\ ret.val.tag = "Panic"
        /\ ret.val.val[1] = "Unknown dependency"
        /\ ret.val.val[3] \in Unresolved(yake)
        /\ \E i \in 1..Len(DependsOf(yake, ret.val.val[3])) :
               DependsOf(yake, ret.val.val[3])[i] = ret.val.val[2]
        /\ ret.val.val[2] \notin DOMAIN get_all_targets(yake)
        /\ Unresolved(yake) = {ret.arg} => ret.val.val[3] = ret.arg

\* execute of a target whose first dependency resolves and has commands and
\* whose second does not resolve.
C7_Witness ==
    /\ ret.fn = "execute"
    /\ pc = "panic"
    /\ log = <<>>
    /\ ret.val.val[1] = "Unknown dependency"
    /\ ret.val.val[3] = ret.arg
    /\ Len(DependsOf(yake, ret.arg)) = 2
    /\ DependsOf(yake, ret.arg)[1] \in DOMAIN get_all_targets(yake)
    /\ Len(unwrap_or_default(get_all_targets(yake)[DependsOf(yake, ret.arg)[1]].exec)) >= 1
    /\ DependsOf(yake, ret.arg)[2] = ret.val.val[2]

(***************************************************************************)
(* C8: add_sub_yake                                                        *)
(***************************************************************************)
\* The number of subordinate Yakes merged so far.
Merged == Len(loaded[2]) - Len(sub_yakes)

\* The merged subordinate Yakes whose flattened map has key k.
Defining(k) ==
    {i \in 1..Merged : k \in DOMAIN get_all_targets(loaded[2][i])}

Last(S) == CHOOSE i \in S : \A j \in S : j <= i

\* C8: after add_sub_yake(root, sub) every key of sub's flattened map is a
\* key of root.targets and maps to sub's target, every other key of
\* root.targets maps to what it mapped to before, no key is lost, and meta
\* and env of the root are as before; after several merges each key holds the
\* target of the last merged Yake that defines it, or that of the root as
\* loaded.
C8_Merge ==
    ret.fn = "add_sub_yake" =>
        /\ \A k \in DOMAIN get_all_targets(ret.arg) :
               /\ k \in DOMAIN yake.targets
               /\ yake.targets[k] = get_all_targets(ret.arg)[k]
        /\ \A k \in (DOMAIN yake.targets) \ (DOMAIN get_all_targets(ret.arg)) :
               /\ k \in DOMAIN ret.val.targets
               /\ yake.targets[k] = ret.val.targets[k]
        /\ DOMAIN ret.val.targets \subseteq DOMAIN yake.targets
        /\ yake.meta = ret.val.meta
        /\ yake.env = ret.val.env
        /\ \A k \in DOMAIN yake.targets :
               yake.targets[k] =
                   IF Defining(k) = {} THEN loaded[1].targets[k]
                   ELSE get_all_targets(loaded[2][Last(Defining(k))])[k]

\* The second of two merges: it overwrites a key with another target, adds
\* a key, leaves a key alone, and a key of the first merge is still there.
C8_Witness ==
    /\ ret.fn = "add_sub_yake"
    /\ Merged = 2
    /\ \E k \in (DOMAIN get_all_targets(ret.arg)) \cap (DOMAIN ret.val.targets) :
           ret.val.targets[k] # yake.targets[k]
    /\ (DOMAIN get_all_targets(ret.arg)) \ (DOMAIN ret.val.targets) # {}
    /\ (DOMAIN ret.val.targets) \ (DOMAIN get_all_targets(ret.arg)) # {}
    /\ \E k \in DOMAIN yake.targets : Defining(k) = {1}

(***************************************************************************)
(* C9: has_target_name                                                     *)
(***************************************************************************)
\* C9: has_target_name(name) is Ok exactly when name is the dot-joined name
\* of a top-level target or of a nested Callable below Groups; when it fails,
\* its payload is the set of the keys of the flattened map that map to a
\* Callable.
C9_HasTargetName ==
    ret.fn = "has_target_name" =>
        /\ ret.val.tag = "Ok" <=> \E c \in Listed(yake) : QualifiedName(c) = ret.arg
        /\ ret.val.tag = "Ok" <=> ret.arg \in DOMAIN get_all_targets(yake)
        /\ ret.val.tag # "Ok" =>
               /\ ret.val.tag = "Err"
               /\ ret.val.val = {QualifiedName(c) : c \in
                                    {d \in Listed(yake) :
                                        IsCallable(get_all_targets(yake)[QualifiedName(d)])}}

\* The bare last segment of a nested Callable is refused; the payload names
\* the nested Callable and a top-level Callable and not the top-level Group.
C9_Witness ==
    /\ ret.fn = "has_target_name"
    /\ ret.val.tag = "Err"
    /\ ret.arg = <<"s">>
    /\ <<"g", "s">> \in ret.val.val
    /\ <<"t">> \in ret.val.val
    /\ <<"g">> \in DOMAIN yake.targets
    /\ <<"g">> \notin ret.val.val

(***************************************************************************)
(* C10                                                                     *)
(***************************************************************************)
\* C10: every command execute runs is a command of a Callable target; the
\* exec list of a Group is never run.
C10_OnlyCallablesRun ==
    ret.fn = "execute" => \A j \in 1..Len(log) : IsCallable(log[j].target)

(***************************************************************************)
(* C11                                                                     *)
(***************************************************************************)
\* The panics of execute that come from looking up the target and its
\* dependencies, before run_target.
LookupPanic(v) ==
    /\ v.tag = "Panic"
    /\ v.val[1] \in {"unwrap on None", "Unknown dependency"}

\* C11: execute(name) returns the "Unknown target" error, with no command
\* run, exactly when has_target_name(name) fails; for a name it accepts, a
\* top-level Group included, in a document whose depends entries all resolve,
\* execute does not fail in the lookup of the target and its dependencies.
C11_ExecuteLookup ==
    ret.fn = "execute" =>
        /\ ret.val.tag = "Err" <=> ret.arg \notin DOMAIN get_all_targets(yake)
        /\ ret.val.tag = "Err" =>
               /\ ret.val.val = <<"Unknown target", ret.arg>>
               /\ log = <<>>
        /\ (ret.arg \in DOMAIN get_all_targets(yake) /\ Unresolved(yake) = {}) =>
               ~LookupPanic(ret.val)

(***************************************************************************)
(* C12                                                                     *)
(***************************************************************************)
\* C12: for a name that is a key of the flattened map, get_target_env_vars
\* finds a target under every prefix of the name: it ends with the merged
\* environment or with the failure on a reserved key, never with the failure
\* to look up a prefix.
C12_PrefixesResolve ==
    (ret.fn = "get_target_env_vars" /\ ret.arg \in DOMAIN get_all_targets(yake)) =>
        /\ \/ ret.val.tag = "Ok"
           \/ /\ ret.val.tag = "Panic"
              /\ ret.val.val[1] = "Found invalid/forbidden env variables"
        /\ \A i \in 1..Len(ret.arg) :
               SubSeq(ret.arg, 1, i) \in DOMAIN get_all_targets(yake)

(***************************************************************************)
(* C13                                                                     *)
(***************************************************************************)
\* C13: a merge only adds or overwrites entries of the root's flattened
\* map: a name that resolved in the root before add_sub_yake(root, sub) and
\* is no key of sub's flattened map resolves after it, to the same target.
C13_MergeKeepsNames ==
    ret.fn = "add_sub_yake" =>
        \A k \in (DOMAIN get_all_targets(ret.val)) \ (DOMAIN get_all_targets(ret.arg)) :
            /\ k \in DOMAIN get_all_targets(yake)
            /\ get_all_targets(yake)[k] = get_all_targets(ret.val)[k]

====
